---------------------------- MODULE Spec2Model ----------------------------
(***************************************************************************)
(* Model of main.py: a sorter that walks a source tree, classifies each    *)
(* file by extension, resolves a year, and moves the file into             *)
(* <dest>/<year>/, routing content duplicates to a duplicates tree and     *)
(* renaming name collisions.                                               *)
(*                                                                         *)
(* A file name is a sequence of one-character strings, a path is a         *)
(* sequence of components (each a file name), a file content is a sequence *)
(* of bytes.  The file system is a function from the existing file paths   *)
(* to their contents, plus the set of existing directories.                *)
(***************************************************************************)
EXTENDS Integers, Sequences, FiniteSets, TLC

(***************************************************************************)
(* Bounds of the model.                                                    *)
(***************************************************************************)
\* number of files found by the walk of the source tree
MaxFiles == 2
\* bytes returned by one read of calculate_file_hash (8192 in the source,
\* scaled down to the contents of the model)
ChunkSize == 2
\* longest content drawn for the comparison of a single pair of files
MaxContentLen == 3
\* number of files of one basename walked into empty destination trees
MaxSameName == 3

(***************************************************************************)
(* Strings.                                                                *)
(***************************************************************************)
IMAGE_EXTENSIONS ==
    << <<".", "j", "p", "g">>, <<".", "j", "p", "e", "g">>,
       <<".", "p", "n", "g">>, <<".", "g", "i", "f">>,
       <<".", "b", "m", "p">>, <<".", "t", "i", "f", "f">>,
       <<".", "h", "e", "i", "c">> >>

VIDEO_EXTENSIONS ==
    << <<".", "m", "p", "4">>, <<".", "m", "o", "v">>,
       <<".", "a", "v", "i">>, <<".", "m", "k", "v">>,
       <<".", "w", "m", "v">>, <<".", "f", "l", "v">>,
       <<".", "3", "g", "p">>, <<"m", "t", "s">> >>

\* str.lower() on one character
LowerChar(c) ==
    CASE c = "A" -> "a" [] c = "B" -> "b" [] c = "C" -> "c" [] c = "D" -> "d"
      [] c = "E" -> "e" [] c = "F" -> "f" [] c = "G" -> "g" [] c = "H" -> "h"
      [] c = "I" -> "i" [] c = "J" -> "j" [] c = "K" -> "k" [] c = "L" -> "l"
      [] c = "M" -> "m" [] c = "N" -> "n" [] c = "O" -> "o" [] c = "P" -> "p"
      [] c = "Q" -> "q" [] c = "R" -> "r" [] c = "S" -> "s" [] c = "T" -> "t"
      [] c = "U" -> "u" [] c = "V" -> "v" [] c = "W" -> "w" [] c = "X" -> "x"
      [] c = "Y" -> "y" [] c = "Z" -> "z" [] OTHER -> c

\* str.lower()
Lower(s) == [i \in 1..Len(s) |-> LowerChar(s[i])]

\* str.endswith(suffix)
EndsWith(s, suffix) ==
    /\ Len(s) >= Len(suffix)
    /\ SubSeq(s, Len(s) - Len(suffix) + 1, Len(s)) = suffix

\* str.endswith(tuple of suffixes)
EndsWithAny(s, suffixes) ==
    \E i \in 1..Len(suffixes) : EndsWith(s, suffixes[i])

\* str.rfind(".") on a 1-indexed sequence; 0 when there is no dot
RFindDot(s) ==
    IF \E i \in 1..Len(s) : s[i] = "."
    THEN CHOOSE i \in 1..Len(s) :
            /\ s[i] = "."
            /\ \A j \in (i+1)..Len(s) : s[j] # "."
    ELSE 0

\* os.path.splitext on a base name: the extension starts at the last dot,
\* unless only dots precede that dot
splitext(p) ==
    LET dotIndex == RFindDot(p)
    IN  IF dotIndex > 0 /\ \E k \in 1..(dotIndex - 1) : p[k] # "."
        THEN [name |-> SubSeq(p, 1, dotIndex - 1),
              ext  |-> SubSeq(p, dotIndex, Len(p))]
        ELSE [name |-> p, ext |-> << >>]

DigitChar(d) ==
    CASE d = 0 -> "0" [] d = 1 -> "1" [] d = 2 -> "2" [] d = 3 -> "3"
      [] d = 4 -> "4" [] d = 5 -> "5" [] d = 6 -> "6" [] d = 7 -> "7"
      [] d = 8 -> "8" [] d = 9 -> "9"

RECURSIVE Str(_)
\* str(n) for a natural number
Str(n) == IF n < 10 THEN <<DigitChar(n)>>
          ELSE Append(Str(n \div 10), DigitChar(n % 10))

\* variant: the extension is dropped from the suffixed name
SuffixedNameNoExt(name, count, ext) == name \o <<"_">> \o Str(count)

\* f"{name}_{count}{ext}"
SuffixedName(name, count, ext) == name \o <<"_">> \o Str(count) \o ext

(***************************************************************************)
(* Paths.                                                                  *)
(***************************************************************************)
Join(folder, name) == Append(folder, name)
Basename(path) == path[Len(path)]
Dirname(path) == SubSeq(path, 1, Len(path) - 1)

\* path lies under directory
Under(directory, path) ==
    /\ Len(path) > Len(directory)
    /\ SubSeq(path, 1, Len(directory)) = directory

\* variant: the directory itself is left out
AncestorsOnly(directory) ==
    {SubSeq(directory, 1, n) : n \in 1..(Len(directory) - 1)}

\* the directory and all its ancestors
Ancestors(directory) == {SubSeq(directory, 1, n) : n \in 1..Len(directory)}

source == << <<"s", "r", "c">> >>
photo_destination == << <<"S", "o", "r", "t", "e", "d">>, <<"P", "h", "o", "t", "o">> >>
video_destination == << <<"S", "o", "r", "t", "e", "d">>, <<"V", "i", "d", "e", "o">> >>
duplicates_root == << <<"S", "o", "r", "t", "e", "d">>, <<"D", "u", "p", "s">> >>


(***************************************************************************)
(* File contents and their comparison.                                     *)
(***************************************************************************)
Bytes == {0, 1}

Min(a, b) == IF a < b THEN a ELSE b

RECURSIVE sha256_update(_, _)
\* sha256.update(chunk): the digest state absorbs the bytes of the chunk in
\* order.  The digest is modelled as collision free: the state is the binary
\* number spelled by a leading 1 and the bytes absorbed so far.
sha256_update(h, chunk) ==
    IF chunk = << >> THEN h
    ELSE sha256_update(2 * h + Head(chunk), Tail(chunk))

RECURSIVE ReadChunks(_, _, _)
\* while chunk := f.read(chunk_size): sha256.update(chunk)
ReadChunks(h, rest, chunk_size) ==
    IF rest = << >> THEN h
    ELSE LET n == Min(chunk_size, Len(rest))
         IN  ReadChunks(sha256_update(h, SubSeq(rest, 1, n)),
                        SubSeq(rest, n + 1, Len(rest)), chunk_size)

\* calculate_file_hash: the hex digest as a one-element sequence, or the
\* empty sequence for None when opening or reading the file raises
calculate_file_hash(content, readFails) ==
    IF readFails THEN << >>
    ELSE <<ReadChunks(1, content, ChunkSize)>>

\* os.path.getsize
getsize(content) == Len(content)

CompareFaults == {"none", "getsize", "read1", "read2"}

\* variant: the digests are compared the wrong way round
is_duplicate_inverted(content1, content2, fault) ==
    IF fault = "getsize"
    THEN [result |-> FALSE, reads |-> << >>, error |-> TRUE]
    ELSE IF getsize(content1) # getsize(content2)
    THEN [result |-> FALSE, reads |-> << >>, error |-> FALSE]
    ELSE LET hash1 == calculate_file_hash(content1, fault = "read1")
             hash2 == calculate_file_hash(content2, fault = "read2")
         IN  IF hash1 = << >> \/ hash2 = << >>
             THEN [result |-> FALSE, reads |-> <<1, 2>>, error |-> TRUE]
             ELSE [result |-> hash1 # hash2, reads |-> <<1, 2>>,
                   error |-> FALSE]

\* variant: both files are hashed before the sizes are compared
is_duplicate_hash_first(content1, content2, fault) ==
    IF fault = "getsize"
    THEN [result |-> FALSE, reads |-> << >>, error |-> TRUE]
    ELSE LET hash1 == calculate_file_hash(content1, fault = "read1")
             hash2 == calculate_file_hash(content2, fault = "read2")
         IN  IF hash1 = << >> \/ hash2 = << >>
             THEN [result |-> FALSE, reads |-> <<1, 2>>, error |-> TRUE]
             ELSE IF getsize(content1) # getsize(content2)
             THEN [result |-> FALSE, reads |-> <<1, 2>>, error |-> FALSE]
             ELSE [result |-> hash1 = hash2, reads |-> <<1, 2>>,
                   error |-> FALSE]

\* variant: files of equal size are taken for duplicates, without a hash
is_duplicate_size_only(content1, content2, fault) ==
    IF fault = "getsize"
    THEN [result |-> FALSE, reads |-> << >>, error |-> TRUE]
    ELSE [result |-> getsize(content1) = getsize(content2),
          reads |-> << >>, error |-> FALSE]

\* variant: a failed read counts as a match
is_duplicate_fail_true(content1, content2, fault) ==
    IF fault = "getsize"
    THEN [result |-> FALSE, reads |-> << >>, error |-> TRUE]
    ELSE IF getsize(content1) # getsize(content2)
    THEN [result |-> FALSE, reads |-> << >>, error |-> FALSE]
    ELSE LET hash1 == calculate_file_hash(content1, fault = "read1")
             hash2 == calculate_file_hash(content2, fault = "read2")
         IN  IF hash1 = << >> \/ hash2 = << >>
             THEN [result |-> TRUE, reads |-> <<1, 2>>, error |-> TRUE]
             ELSE [result |-> hash1 = hash2, reads |-> <<1, 2>>,
                   error |-> FALSE]

\* is_duplicate(file1, file2) on the contents of the two files, under an
\* I/O fault of the comparison.  result is the returned boolean, reads the
\* files whose content the call opened for reading, in order, error whether
\* an exception was caught or a hash was None.
is_duplicate(content1, content2, fault) ==
    IF fault = "getsize"
    THEN [result |-> FALSE, reads |-> << >>, error |-> TRUE]
    ELSE IF getsize(content1) # getsize(content2)
    THEN [result |-> FALSE, reads |-> << >>, error |-> FALSE]
    ELSE LET hash1 == calculate_file_hash(content1, fault = "read1")
             hash2 == calculate_file_hash(content2, fault = "read2")
         IN  IF hash1 = << >> \/ hash2 = << >>
             THEN [result |-> FALSE, reads |-> <<1, 2>>, error |-> TRUE]
             ELSE [result |-> hash1 = hash2, reads |-> <<1, 2>>,
                   error |-> FALSE]

(***************************************************************************)
(* Classification and year resolution.                                     *)
(***************************************************************************)
\* the if / elif / else on file_lower of copy_media_sorted_by_year
Classify(file) ==
    LET file_lower == Lower(file)
    IN  IF EndsWithAny(file_lower, IMAGE_EXTENSIONS) THEN "Photo"
        ELSE IF EndsWithAny(file_lower, VIDEO_EXTENSIONS) THEN "Video"
        ELSE "Ignored"

Digits == {"0", "1", "2", "3", "4", "5", "6", "7", "8", "9"}

DigitValue(c) == CHOOSE d \in 0..9 : DigitChar(d) = c

\* datetime.strptime(value, '%Y:%m:%d %H:%M:%S').year; 0 stands for the
\* ValueError of a value that does not match the format
strptime_year(value) ==
    IF /\ Len(value) = 19
       /\ \A i \in {5, 8, 14, 17} : value[i] = ":"
       /\ value[11] = " "
       /\ \A i \in (1..19) \ {5, 8, 11, 14, 17} : value[i] \in Digits
    THEN LET y  == 1000 * DigitValue(value[1]) + 100 * DigitValue(value[2])
                   + 10 * DigitValue(value[3]) + DigitValue(value[4])
             mo == 10 * DigitValue(value[6]) + DigitValue(value[7])
             d  == 10 * DigitValue(value[9]) + DigitValue(value[10])
             h  == 10 * DigitValue(value[12]) + DigitValue(value[13])
             mi == 10 * DigitValue(value[15]) + DigitValue(value[16])
             s  == 10 * DigitValue(value[18]) + DigitValue(value[19])
         IN  IF /\ y >= 1 /\ mo \in 1..12 /\ d \in 1..31
                /\ h \in 0..23 /\ mi \in 0..59 /\ s \in 0..61
             THEN y ELSE 0
    ELSE 0

IsLeap(y) == (y % 4 = 0 /\ y % 100 # 0) \/ y % 400 = 0

DaysIn(y) == IF IsLeap(y) THEN 366 ELSE 365

RECURSIVE YearFromDays(_, _)
YearFromDays(y, days) ==
    IF days < DaysIn(y) THEN y ELSE YearFromDays(y + 1, days - DaysIn(y))

\* datetime.fromtimestamp(mod_time).year, for a time zone at offset zero
fromtimestamp_year(mod_time) == YearFromDays(1970, mod_time \div 86400)


\* the fallback after a failed metadata read: os.path.getmtime may raise
fallback_year(mtime) ==
    IF mtime.status = "raise" THEN [raised |-> TRUE, year |-> 0]
    ELSE [raised |-> FALSE, year |-> fromtimestamp_year(mtime.value)]

\* get_image_year: exif is what Image.open / _getexif deliver for the file
\* ("raise", "none": no EXIF data or no DateTimeOriginal tag, "value": the
\* tag's value), mtime what os.path.getmtime delivers
get_image_year(exif, mtime) ==
    IF exif.status = "value" /\ strptime_year(exif.value) # 0
    THEN [raised |-> FALSE, year |-> strptime_year(exif.value)]
    ELSE fallback_year(mtime)

\* variant: the parser is closed after the try block, without finally
get_video_year_no_finally(parser, meta, mtime) ==
    IF parser = "raise"
    THEN [raised |-> TRUE, year |-> 0, closes |-> 0,
          trace |-> <<"createParser">>]
    ELSE IF parser = "none"
    THEN [raised |-> fallback_year(mtime).raised,
          year |-> fallback_year(mtime).year, closes |-> 0,
          trace |-> <<"createParser", "getmtime">>]
    ELSE IF meta.status = "value"
    THEN [raised |-> FALSE, year |-> meta.value, closes |-> 0,
          trace |-> <<"createParser", "extractMetadata">>]
    ELSE [raised |-> fallback_year(mtime).raised,
          year |-> fallback_year(mtime).year, closes |-> 1,
          trace |-> <<"createParser", "extractMetadata", "close", "getmtime">>]

\* get_video_year: parser is the outcome of createParser ("raise", "none",
\* "opened"), meta that of extractMetadata on the opened parser ("raise",
\* "none": no metadata or no creation_date, "value": the creation date's
\* year).  closes counts the calls of parser.close(), trace lists the calls
\* made, in order.
get_video_year(parser, meta, mtime) ==
    IF parser = "raise"
    THEN [raised |-> TRUE, year |-> 0, closes |-> 0,
          trace |-> <<"createParser">>]
    ELSE IF parser = "none"
    THEN [raised |-> fallback_year(mtime).raised,
          year |-> fallback_year(mtime).year, closes |-> 0,
          trace |-> <<"createParser", "getmtime">>]
    ELSE IF meta.status = "value"
    THEN [raised |-> FALSE, year |-> meta.value, closes |-> 1,
          trace |-> <<"createParser", "extractMetadata", "close">>]
    ELSE [raised |-> fallback_year(mtime).raised,
          year |-> fallback_year(mtime).year, closes |-> 1,
          trace |-> <<"createParser", "extractMetadata", "close", "getmtime">>]

(***************************************************************************)
(* Relocation.                                                             *)
(***************************************************************************)
\* variant: the file is copied and the source is kept
shutil_copy(fsys, src, dst) ==
    [p \in DOMAIN fsys \cup {dst} |->
        IF p = dst THEN fsys[src] ELSE fsys[p]]

\* shutil.move(src, dst) within one file system: a rename, which replaces
\* whatever file is at dst
shutil_move(fsys, src, dst) ==
    [p \in (DOMAIN fsys \ {src}) \cup {dst} |->
        IF p = dst THEN fsys[src] ELSE fsys[p]]

\* variant: the suffix loop goes on from the move counter
suffix_start_count(count) == count

\* "count = 1" before either suffix loop of move_file_safe: the parameter
\* count (the orchestrator's move counter) is overwritten
suffix_start(count) == 1

\* variant: the first suffixed name is taken without looking at it
suffix_search_once(taken, folder, name, ext, candidate, count) ==
    IF candidate \in taken
    THEN Join(folder, SuffixedName(name, count, ext))
    ELSE candidate

RECURSIVE suffix_search(_, _, _, _, _, _)
\* while os.path.exists(candidate):
\*     candidate = os.path.join(folder, f"{name}_{count}{ext}"); count += 1
suffix_search(taken, folder, name, ext, candidate, count) ==
    IF candidate \in taken
    THEN suffix_search(taken, folder, name, ext,
                       Join(folder, SuffixedName(name, count, ext)), count + 1)
    ELSE candidate

MoveFaults == {"none", "makedirs", "move"}

\* move_file_safe(src_path, dest_path, duplicates_folder, count) on the file
\* system (fsys, dirset), under an I/O fault of the comparison and one of
\* the move.  Every exception is caught inside.
move_file_safe(fsys, dirset, src_path, dest_path, duplicates_folder, count, cmpFault, mvFault) ==
    LET same == IF dest_path \in DOMAIN fsys
                THEN is_duplicate(fsys[src_path], fsys[dest_path], cmpFault)
                ELSE [result |-> FALSE, reads |-> << >>, error |-> TRUE]
        base == Basename(src_path)
        compared == IF dest_path \notin DOMAIN fsys \cup dirset THEN "no"
                    ELSE IF same.error THEN "failed"
                    ELSE IF same.result THEN "same" ELSE "different"
    IN  [compared |-> compared] @@
        IF dest_path \in DOMAIN fsys \cup dirset
        THEN IF same.result
             THEN IF mvFault = "makedirs"
                  THEN [fs |-> fsys, dirs |-> dirset, moved |-> FALSE,
                        outcome |-> "ContentDuplicate", target |-> << >>,
                        attempts |-> 0]
                  ELSE LET dirs2 == dirset \cup Ancestors(duplicates_folder)
                           duplicate_dest ==
                               suffix_search(DOMAIN fsys \cup dirs2,
                                   duplicates_folder, splitext(base).name,
                                   splitext(base).ext,
                                   Join(duplicates_folder, base),
                                   suffix_start(count))
                       IN  IF mvFault = "move"
                           THEN [fs |-> fsys, dirs |-> dirs2, moved |-> FALSE,
                                 outcome |-> "ContentDuplicate",
                                 target |-> duplicate_dest, attempts |-> 1]
                           ELSE [fs |-> shutil_move(fsys, src_path, duplicate_dest),
                                 dirs |-> dirs2, moved |-> TRUE,
                                 outcome |-> "ContentDuplicate",
                                 target |-> duplicate_dest, attempts |-> 1]
             ELSE LET dest_folder == Dirname(dest_path)
                      new_dest_path ==
                          suffix_search(DOMAIN fsys \cup dirset, dest_folder,
                              splitext(Basename(dest_path)).name,
                              splitext(Basename(dest_path)).ext,
                              dest_path, suffix_start(count))
                  IN  IF mvFault = "move"
                      THEN [fs |-> fsys, dirs |-> dirset, moved |-> FALSE,
                            outcome |-> "NameCollision",
                            target |-> new_dest_path, attempts |-> 1]
                      ELSE [fs |-> shutil_move(fsys, src_path, new_dest_path),
                            dirs |-> dirset, moved |-> TRUE,
                            outcome |-> "NameCollision",
                            target |-> new_dest_path, attempts |-> 1]
        ELSE IF mvFault = "move"
             THEN [fs |-> fsys, dirs |-> dirset, moved |-> FALSE,
                   outcome |-> "Clear", target |-> dest_path, attempts |-> 1]
             ELSE [fs |-> shutil_move(fsys, src_path, dest_path),
                   dirs |-> dirset, moved |-> TRUE,
                   outcome |-> "Clear", target |-> dest_path, attempts |-> 1]

\* count_files_in_directory: the files anywhere under the directory
count_files_in_directory(fsys, directory) ==
    Cardinality({p \in DOMAIN fsys : Under(directory, p)})


(***************************************************************************)
(* The run of copy_media_sorted_by_year.                                   *)
(***************************************************************************)
VARIABLES
    fs,       \* the files: a function from the existing file paths to contents
    dirs,     \* the existing directories
    walk,     \* the (root, file) pairs os.walk yields for the source tree
    idx,      \* position of the walk: walk[idx] is the file being processed
    pc,       \* position of the run
    cur,      \* locals of the loop body for the file being processed
    count,    \* the move counter of the orchestrator
    census,   \* the counts taken before and after the walk
    result,   \* per walked file: what its relocation did (history)
    fs0,      \* the files when the run started (history)
    dirs0     \* the directories when the run started (history)

vars == <<fs, dirs, walk, idx, pc, cur, count, census, result, fs0, dirs0>>

a_jpg == <<"a", ".", "j", "p", "g">>
a_mp4 == <<"a", ".", "M", "P", "4">>
n_txt == <<"n", ".", "t", "x", "t">>
amts == <<"a", "m", "t", "s">>

\* the file names and contents found in the source tree
\* (a_mp4 is in upper case)
SourceNames == {a_jpg, a_mp4, n_txt, amts}
SourceContents == {<<0>>, <<1>>}
\* (the content of a file that is not a photo or a video by its extension
\* is drawn from one value)
SourceFiles ==
    [file : {a_jpg, a_mp4}, content : SourceContents]
        \cup [file : SourceNames \ {a_jpg, a_mp4}, content : {<<0>>}]

y2020 == Str(2020)
a_1_jpg == <<"a", "_", "1", ".", "j", "p", "g">>
a_2_jpg == <<"a", "_", "2", ".", "j", "p", "g">>

\* the files found in the destination trees when the run starts
PreExisting ==
    { << >>,
      [p \in {Join(Join(photo_destination, y2020), a_jpg)} |-> <<0>>],
      [p \in {Join(Join(photo_destination, y2020), a_jpg),
              Join(Join(photo_destination, y2020), a_2_jpg)} |->
          IF Basename(p) = a_jpg THEN <<0, 1>> ELSE <<1>>] }

\* what the metadata readers and the file system can deliver for a file
exif_2020 == <<"2", "0", "2", "0", ":", "0", "5", ":", "0", "1", " ",
               "1", "0", ":", "0", "0", ":", "0", "0">>
exif_bad == <<"2", "0", "2", "0", "-", "0", "5", "-", "0", "1">>
ExifOutcomes ==
    { [status |-> "raise", value |-> << >>],
      [status |-> "none", value |-> << >>],
      [status |-> "value", value |-> exif_2020],
      [status |-> "value", value |-> exif_bad] }
ParserOutcomes == {"raise", "none", "opened"}
MetaOutcomes ==
    { [status |-> "raise", value |-> 0],
      [status |-> "none", value |-> 0],
      [status |-> "value", value |-> 2020] }
\* 1622505600 is 2021-06-01 00:00:00 UTC
MTimeOutcomes ==
    { [status |-> "raise", value |-> 0],
      [status |-> "ok", value |-> 1622505600] }

NoCur ==
    [src_path |-> << >>, kind |-> "None", year |-> 0, raised |-> FALSE,
     closes |-> 0, dest_path |-> << >>, duplicate_dest |-> << >>]

NoCensus ==
    [source_file_count |-> 0, pre_photo_count |-> 0, pre_video_count |-> 0,
     pre_duplicate_count |-> 0, moved_files |-> 0, duplicates |-> 0,
     check |-> 0]

NoResult ==
    [kind |-> "None", year |-> 0, outcome |-> "None", moved |-> FALSE,
     target |-> << >>, attempts |-> 0, compared |-> "no"]

Slots == 1..MaxFiles

SrcPath(w, i) == Join(w[i].root, w[i].file)

Init ==
    \E present \in BOOLEAN, listing \in [Slots -> SourceFiles],
       pre \in PreExisting :
        LET w == IF present
                 THEN [i \in Slots |->
                          [root |-> Join(source, Str(i)),
                           file |-> listing[i].file]]
                 ELSE << >>
            srcfs == [p \in {SrcPath(w, i) : i \in DOMAIN w} |->
                         listing[CHOOSE i \in DOMAIN w : SrcPath(w, i) = p].content]
            allfs == srcfs @@ pre
        IN  /\ fs = allfs
            /\ dirs = UNION {Ancestors(Dirname(p)) : p \in DOMAIN allfs}
            /\ walk = w
            /\ idx = 0
            /\ pc = "Start"
            /\ cur = NoCur
            /\ count = 0
            /\ census = NoCensus
            /\ result = [i \in DOMAIN w |-> NoResult]
            /\ fs0 = allfs
            /\ dirs0 = UNION {Ancestors(Dirname(p)) : p \in DOMAIN allfs}

\* variant: the walk is entered without the check of the source folder
StartUnchecked ==
    /\ pc = "Start"
    /\ census' = [census EXCEPT
          !.source_file_count = count_files_in_directory(fs, source),
          !.pre_photo_count = count_files_in_directory(fs, photo_destination),
          !.pre_video_count = count_files_in_directory(fs, video_destination),
          !.pre_duplicate_count = count_files_in_directory(fs, duplicates_root)]
    /\ pc' = "WalkNext"
    /\ count' = 0
    /\ UNCHANGED <<fs, dirs, walk, idx, cur, result, fs0, dirs0>>

\* lines 120-135: the counts before the walk, then the check of the source
Start ==
    /\ pc = "Start"
    /\ census' = [census EXCEPT
          !.source_file_count = count_files_in_directory(fs, source),
          !.pre_photo_count = count_files_in_directory(fs, photo_destination),
          !.pre_video_count = count_files_in_directory(fs, video_destination),
          !.pre_duplicate_count = count_files_in_directory(fs, duplicates_root)]
    /\ pc' = IF source \in dirs THEN "WalkNext" ELSE "Aborted"
    /\ count' = 0
    /\ UNCHANGED <<fs, dirs, walk, idx, cur, result, fs0, dirs0>>

\* the two for loops: the next file of the walk, or the end of the walk
WalkNext ==
    /\ pc = "WalkNext"
    /\ IF idx < Len(walk)
       THEN /\ idx' = idx + 1
            /\ cur' = [NoCur EXCEPT !.src_path = SrcPath(walk, idx + 1)]
            /\ pc' = "Classify"
       ELSE /\ pc' = "Done"
            /\ cur' = NoCur
            /\ UNCHANGED idx
    /\ UNCHANGED <<fs, dirs, walk, count, census, result, fs0, dirs0>>

\* lines 138-150: the kind of the file; an Ignored file is skipped
ClassifyStep ==
    /\ pc = "Classify"
    /\ LET kind == Classify(walk[idx].file)
       IN  /\ cur' = [cur EXCEPT !.kind = kind]
           /\ result' = [result EXCEPT ![idx].kind = kind]
           /\ pc' = IF kind = "Ignored" THEN "WalkNext" ELSE "ResolveYear"
    /\ UNCHANGED <<fs, dirs, walk, idx, count, census, fs0, dirs0>>

\* lines 142 and 146: the year of the file; an exception raised by the
\* resolver is caught nowhere and ends the program
ResolveYear ==
    /\ pc = "ResolveYear"
    /\ \E r \in IF cur.kind = "Photo"
                 THEN {get_image_year(exif, mtime) @@ [closes |-> 0] :
                          exif \in ExifOutcomes, mtime \in MTimeOutcomes}
                 ELSE {get_video_year(parser, meta, mtime) :
                          parser \in ParserOutcomes, meta \in MetaOutcomes,
                          mtime \in MTimeOutcomes} :
          /\ cur' = [cur EXCEPT !.year = r.year, !.raised = r.raised,
                                !.closes = r.closes]
          /\ result' = [result EXCEPT ![idx].year = r.year]
          /\ pc' = IF r.raised THEN "Crashed" ELSE "EnsureYearDir"
    /\ UNCHANGED <<fs, dirs, walk, idx, count, census, fs0, dirs0>>

\* lines 143-156: the destination paths, os.makedirs of the year folder
\* (an exception is caught nowhere), the move counter
EnsureYearDir ==
    /\ pc = "EnsureYearDir"
    /\ LET base_dest == IF cur.kind = "Photo" THEN photo_destination
                        ELSE video_destination
           kind_name == IF cur.kind = "Photo" THEN <<"P", "h", "o", "t", "o">>
                        ELSE <<"V", "i", "d", "e", "o">>
           year_folder == Join(base_dest, Str(cur.year))
       IN  \E fails \in BOOLEAN :
              IF fails
              THEN /\ pc' = "Crashed"
                   /\ cur' = [cur EXCEPT !.raised = TRUE]
                   /\ UNCHANGED <<dirs, count>>
              ELSE /\ dirs' = dirs \cup Ancestors(year_folder)
                   /\ cur' = [cur EXCEPT
                         !.closes = 0,
                         !.dest_path = Join(year_folder, walk[idx].file),
                         !.duplicate_dest =
                             Join(Join(duplicates_root, kind_name), Str(cur.year))]
                   /\ count' = count + 1
                   /\ pc' = "Relocate"
    /\ UNCHANGED <<fs, walk, idx, census, result, fs0, dirs0>>

\* variant: the exception of a failed move is not caught
RelocateUncaught ==
    /\ pc = "Relocate"
    /\ \E cmpFault \in CompareFaults, mvFault \in MoveFaults :
          LET r == move_file_safe(fs, dirs, cur.src_path, cur.dest_path,
                                  cur.duplicate_dest, count, cmpFault, mvFault)
          IN  /\ fs' = r.fs
              /\ dirs' = r.dirs
              /\ result' = [result EXCEPT
                    ![idx].outcome = r.outcome, ![idx].moved = r.moved,
                    ![idx].target = r.target,
                    ![idx].attempts = result[idx].attempts + r.attempts,
                    ![idx].compared = r.compared]
              /\ pc' = IF r.moved THEN "WalkNext" ELSE "Crashed"
    /\ UNCHANGED <<walk, idx, cur, count, census, fs0, dirs0>>

\* line 157: move_file_safe, which catches every exception
Relocate ==
    /\ pc = "Relocate"
    /\ \E cmpFault \in CompareFaults, mvFault \in MoveFaults :
          LET r == move_file_safe(fs, dirs, cur.src_path, cur.dest_path,
                                  cur.duplicate_dest, count, cmpFault, mvFault)
          IN  /\ fs' = r.fs
              /\ dirs' = r.dirs
              /\ result' = [result EXCEPT
                    ![idx].outcome = r.outcome, ![idx].moved = r.moved,
                    ![idx].target = r.target,
                    ![idx].attempts = result[idx].attempts + r.attempts,
                    ![idx].compared = r.compared]
    /\ pc' = "WalkNext"
    /\ UNCHANGED <<walk, idx, cur, count, census, fs0, dirs0>>

\* variant: the duplicates tree is left out of the files moved
ReportNoDuplicates ==
    /\ pc = "Done"
    /\ LET post_photo_count == count_files_in_directory(fs, photo_destination)
           post_video_count == count_files_in_directory(fs, video_destination)
           post_duplicate_count == count_files_in_directory(fs, duplicates_root)
           moved_files == post_photo_count + post_video_count
               - (census.pre_photo_count + census.pre_video_count)
       IN  census' = [census EXCEPT
              !.moved_files = moved_files,
              !.duplicates = post_duplicate_count - census.pre_duplicate_count,
              !.check = census.source_file_count - moved_files]
    /\ pc' = "End"
    /\ UNCHANGED <<fs, dirs, walk, idx, cur, count, result, fs0, dirs0>>

\* lines 160-172: the counts after the walk and the check value
Report ==
    /\ pc = "Done"
    /\ LET post_photo_count == count_files_in_directory(fs, photo_destination)
           post_video_count == count_files_in_directory(fs, video_destination)
           post_duplicate_count == count_files_in_directory(fs, duplicates_root)
           post_total_sorted_files ==
               post_photo_count + post_video_count + post_duplicate_count
           moved_files == post_total_sorted_files
               - (census.pre_photo_count + census.pre_video_count
                  + census.pre_duplicate_count)
       IN  census' = [census EXCEPT
              !.moved_files = moved_files,
              !.duplicates = post_duplicate_count - census.pre_duplicate_count,
              !.check = census.source_file_count - moved_files]
    /\ pc' = "End"
    /\ UNCHANGED <<fs, dirs, walk, idx, cur, count, result, fs0, dirs0>>

Next ==
    \/ Start
    \/ WalkNext
    \/ ClassifyStep
    \/ ResolveYear
    \/ EnsureYearDir
    \/ Relocate
    \/ Report

Spec == Init /\ [][Next]_vars

\* the run is a sequential program that keeps running: a step that can be
\* taken is taken
FairSpec == Init /\ [][Next]_vars /\ WF_vars(Next)


\* a run on files of one basename, with empty destination trees
InitSameName ==
    \E listing \in [1..MaxSameName -> [file : {a_jpg}, content : SourceContents]] :
        LET w == [i \in 1..MaxSameName |->
                     [root |-> Join(source, Str(i)), file |-> listing[i].file]]
            srcfs == [p \in {SrcPath(w, i) : i \in DOMAIN w} |->
                         listing[CHOOSE i \in DOMAIN w : SrcPath(w, i) = p].content]
        IN  /\ fs = srcfs
            /\ dirs = UNION {Ancestors(Dirname(p)) : p \in DOMAIN srcfs}
            /\ walk = w
            /\ idx = 0
            /\ pc = "Start"
            /\ cur = NoCur
            /\ count = 0
            /\ census = NoCensus
            /\ result = [i \in DOMAIN w |-> NoResult]
            /\ fs0 = srcfs
            /\ dirs0 = UNION {Ancestors(Dirname(p)) : p \in DOMAIN srcfs}

SpecSameName == InitSameName /\ [][Next]_vars

(***************************************************************************)
(* The comparison of one pair of files, on its own.                        *)
(***************************************************************************)
\* the contents of at most n bytes
ContentsUpTo(n) == UNION {[1..k -> Bytes] : k \in 0..n}

InitCompare ==
    \E content1 \in ContentsUpTo(MaxContentLen),
       content2 \in ContentsUpTo(MaxContentLen), fault \in CompareFaults :
        /\ cur = [content1 |-> content1, content2 |-> content2,
                  fault |-> fault, result |-> FALSE, reads |-> << >>]
        /\ pc = "Compare"
        /\ fs = << >> /\ dirs = {} /\ walk = << >> /\ idx = 0 /\ count = 0
        /\ census = NoCensus /\ result = << >> /\ fs0 = << >> /\ dirs0 = {}

\* one call of is_duplicate
CompareStep ==
    /\ pc = "Compare"
    /\ LET r == is_duplicate(cur.content1, cur.content2, cur.fault)
       IN  cur' = [cur EXCEPT !.result = r.result, !.reads = r.reads]
    /\ pc' = "Compared"
    /\ UNCHANGED <<fs, dirs, walk, idx, count, census, result, fs0, dirs0>>

NextCompare == CompareStep

SpecCompare == InitCompare /\ [][NextCompare]_vars


(***************************************************************************)
(* The resolution of the year of one file, on its own.                     *)
(***************************************************************************)
exif_1999 == <<"1", "9", "9", "9", ":", "1", "2", ":", "3", "1", " ",
               "2", "3", ":", "5", "9", ":", "5", "9">>
exif_month13 == <<"2", "0", "2", "0", ":", "1", "3", ":", "0", "1", " ",
                  "1", "0", ":", "0", "0", ":", "0", "0">>
YearExifOutcomes ==
    ExifOutcomes \cup { [status |-> "value", value |-> exif_1999],
                        [status |-> "value", value |-> exif_month13] }
YearMetaOutcomes == MetaOutcomes \cup { [status |-> "value", value |-> 2019] }
\* 1609459199 is 2020-12-31 23:59:59 UTC, 1609459200 one second later,
\* 951782400 is 2000-02-29, 0 is 1970-01-01
YearMTimeOutcomes ==
    MTimeOutcomes \cup { [status |-> "ok", value |-> 1609459199],
                         [status |-> "ok", value |-> 1609459200],
                         [status |-> "ok", value |-> 951782400],
                         [status |-> "ok", value |-> 0] }

InitYear ==
    \E kind \in {"Photo", "Video"}, exif \in YearExifOutcomes,
       parser \in ParserOutcomes, meta \in YearMetaOutcomes,
       mtime \in YearMTimeOutcomes :
        /\ kind = "Photo" => parser = "none" /\ meta.status = "none"
        /\ kind = "Video" => exif.status = "none"
        /\ cur = [kind |-> kind, exif |-> exif, parser |-> parser,
                  meta |-> meta, mtime |-> mtime, raised |-> FALSE,
                  year |-> 0, closes |-> 0, trace |-> << >>]
        /\ pc = "Resolve"
        /\ fs = << >> /\ dirs = {} /\ walk = << >> /\ idx = 0 /\ count = 0
        /\ census = NoCensus /\ result = << >> /\ fs0 = << >> /\ dirs0 = {}

\* one call of get_image_year or get_video_year
ResolveStep ==
    /\ pc = "Resolve"
    /\ LET r == IF cur.kind = "Photo"
                THEN get_image_year(cur.exif, cur.mtime)
                         @@ [closes |-> 0, trace |-> << >>]
                ELSE get_video_year(cur.parser, cur.meta, cur.mtime)
       IN  cur' = [cur EXCEPT !.raised = r.raised, !.year = r.year,
                              !.closes = r.closes, !.trace = r.trace]
    /\ pc' = "Resolved"
    /\ UNCHANGED <<fs, dirs, walk, idx, count, census, result, fs0, dirs0>>

NextYear == ResolveStep

SpecYear == InitYear /\ [][NextYear]_vars

(***************************************************************************)
(* Properties.                                                             *)
(***************************************************************************)
Walked == DOMAIN result

\* the content the i-th walked file had when the run started
Content0(i) == fs0[SrcPath(walk, i)]

KindFolder(kind) ==
    IF kind = "Photo" THEN <<"P", "h", "o", "t", "o">>
    ELSE <<"V", "i", "d", "e", "o">>

\* <dest_root>/<year> of the i-th walked file
YearFolderOf(i) ==
    Join(IF result[i].kind = "Photo" THEN photo_destination
         ELSE video_destination, Str(result[i].year))

\* <dest_root>/<year>/<basename> of the i-th walked file
ProposedDest(i) == Join(YearFolderOf(i), walk[i].file)

\* duplicates_root/<kind>/<year> of the i-th walked file
DupFolderOf(i) ==
    Join(Join(duplicates_root, KindFolder(result[i].kind)), Str(result[i].year))

InDestination(p) ==
    \/ Under(photo_destination, p)
    \/ Under(video_destination, p)
    \/ Under(duplicates_root, p)

\* C1: no step of the run removes or changes a file of the three
\* destination trees, and a move only targets a path at which nothing
\* existed immediately before the move.
NoOverwrite ==
    [][/\ \A p \in DOMAIN fs :
            InDestination(p) => p \in DOMAIN fs' /\ fs'[p] = fs[p]
       /\ \A i \in Walked :
            result'[i].moved /\ ~result[i].moved
                => result'[i].target \notin DOMAIN fs \cup dirs]_vars

\* a file was renamed next to a file that was in the destination before the run
NoOverwriteWitness ==
    \E i \in Walked :
        /\ result[i].moved
        /\ result[i].outcome = "NameCollision"
        /\ ProposedDest(i) \in DOMAIN fs0
        /\ fs[ProposedDest(i)] = fs0[ProposedDest(i)]
        /\ fs[result[i].target] = Content0(i)

\* C2: from the first census on, the source count taken before the walk
\* equals the files now in the source plus the growth of the three
\* destination trees.
Conservation ==
    pc \in {"WalkNext", "Classify", "ResolveYear", "EnsureYearDir",
            "Relocate", "Done", "End", "Crashed", "Aborted"}
        => census.source_file_count =
              count_files_in_directory(fs, source)
              + (count_files_in_directory(fs, photo_destination)
                    - census.pre_photo_count)
              + (count_files_in_directory(fs, video_destination)
                    - census.pre_video_count)
              + (count_files_in_directory(fs, duplicates_root)
                    - census.pre_duplicate_count)

\* a finished run with a moved file and a file whose move failed
ConservationWitness ==
    /\ pc = "End"
    /\ \E i, j \in Walked :
          /\ result[i].moved
          /\ ~result[j].moved /\ result[j].attempts = 1

\* what C3 promises of a Relocate step (read in the step's two states)
RoutedToDuplicates ==
    LET folder == Join(Join(duplicates_root, KindFolder(Classify(walk[idx].file))),
                       Str(result[idx].year))
        original == Join(folder, walk[idx].file)
    IN  /\ ProposedDest(idx) \in DOMAIN fs'
        /\ fs'[ProposedDest(idx)] = fs[ProposedDest(idx)]
        /\ \E p \in DOMAIN fs' \ DOMAIN fs :
              Dirname(p) = folder /\ fs'[p] = fs[cur.src_path]
        /\ original \notin DOMAIN fs \cup dirs
              => original \in DOMAIN fs' /\ fs'[original] = fs[cur.src_path]

\* the Relocate step moves a file whose proposed destination holds the
\* same bytes
RelocatesIdentical ==
    /\ pc = "Relocate"
    /\ ProposedDest(idx) \in DOMAIN fs
    /\ fs[ProposedDest(idx)] = fs[cur.src_path]
    /\ cur.src_path \notin DOMAIN fs'

\* C3 as stated: whenever a file is relocated whose proposed destination
\* holds byte-identical content, it ends in duplicates_root/<kind>/<year>/
\* (under its own basename if free) and the destination file stays.
DuplicateRoutingAlways ==
    [][RelocatesIdentical => RoutedToDuplicates]_vars

\* C3: whenever a file is relocated whose proposed destination holds
\* byte-identical content and the comparison met no I/O error, it ends in
\* duplicates_root/<kind>/<year>/ (under its own basename if free) and the
\* destination file stays.
DuplicateRouting ==
    [][RelocatesIdentical /\ result'[idx].compared # "failed"
          => RoutedToDuplicates]_vars

\* the second of two identical a.jpg is in Dups/Photo/<year>/a.jpg, the
\* first in Photo/<year>/a.jpg
DuplicateRoutingWitness ==
    \E i, j \in Walked :
        /\ i < j
        /\ walk[i].file = a_jpg /\ walk[j].file = a_jpg
        /\ Content0(i) = Content0(j)
        /\ result[i].moved /\ result[i].target = ProposedDest(i)
        /\ result[j].moved
        /\ result[j].target = Join(DupFolderOf(j), a_jpg)
        /\ ProposedDest(j) = ProposedDest(i)
        /\ result[j].target \in DOMAIN fs


\* the moved files that share name, kind and year with the i-th walked file
SameNameMoved(i) ==
    {j \in Walked : /\ result[j].moved
                    /\ walk[j].file = walk[i].file
                    /\ result[j].kind = result[i].kind
                    /\ result[j].year = result[i].year}

\* the files of the group differ pairwise in content, and from the file
\* that was at their proposed destination before the run
PairwiseDistinct(G, i) ==
    /\ \A j, k \in G : j # k => Content0(j) # Content0(k)
    /\ ProposedDest(i) \in DOMAIN fs0
          => \A j \in G : Content0(j) # fs0[ProposedDest(i)]

\* C4: the moved files of one basename, kind and year, when of pairwise
\* different content, are all in the year folder, each with its own
\* content, under pairwise distinct names that keep the extension.
CollisionSafeNaming ==
    \A i \in Walked :
        result[i].moved /\ PairwiseDistinct(SameNameMoved(i), i)
            => \A j \in SameNameMoved(i) :
                  /\ Dirname(result[j].target) = YearFolderOf(i)
                  /\ result[j].target \in DOMAIN fs
                  /\ fs[result[j].target] = Content0(j)
                  /\ splitext(Basename(result[j].target)).ext
                        = splitext(walk[j].file).ext
                  /\ \A k \in SameNameMoved(i) \ {j} :
                        Basename(result[k].target) # Basename(result[j].target)

\* every walked file has the same name, kind and year, all were moved, and
\* their contents differ pairwise and from the file found at their
\* destination
CollisionSafeNamingWitness ==
    /\ pc = "End"
    /\ Walked # {}
    /\ \A i \in Walked :
          /\ SameNameMoved(i) = Walked
          /\ PairwiseDistinct(Walked, i)
          /\ ProposedDest(i) \in DOMAIN fs0
    /\ Cardinality(Walked) >= 2

\* the k-th suffixed name of a file in a folder
Candidate(folder, file, k) ==
    Join(folder, splitext(file).name \o <<"_">> \o Str(k) \o splitext(file).ext)

\* target is the k-th suffixed name for the smallest k >= 1 that is free
SmallestFree(target, folder, file, taken) ==
    \E k \in 1..(Cardinality(taken) + 1) :
        /\ target = Candidate(folder, file, k)
        /\ target \notin taken
        /\ \A j \in 1..(k - 1) : Candidate(folder, file, j) \in taken

\* C5: a file moved on a name collision is stored in the year folder as
\* name_k.ext, a duplicate whose basename is taken in the duplicates folder
\* as name_k.ext there, for the smallest k >= 1 whose name is free,
\* whatever the move counter is; a second a.jpg becomes a_1.jpg.
SuffixSearch ==
    [][pc = "Relocate" /\ result'[idx].moved =>
          LET target == result'[idx].target
              file == walk[idx].file
              taken == DOMAIN fs \cup dirs'
              original == Join(DupFolderOf(idx), file)
          IN  /\ result'[idx].outcome = "NameCollision" =>
                    /\ SmallestFree(target, YearFolderOf(idx), file, taken)
                    /\ file = a_jpg
                       /\ Join(YearFolderOf(idx), a_1_jpg) \notin taken
                           => Basename(target) = a_1_jpg
              /\ result'[idx].outcome = "ContentDuplicate" =>
                    IF original \in taken
                    THEN SmallestFree(target, DupFolderOf(idx), file, taken)
                    ELSE target = original]_vars

\* a file that was not the first one counted was stored as a_1.jpg
SuffixSearchWitness ==
    \E i \in Walked :
        /\ i > 1 /\ count > 1
        /\ result[i].moved /\ result[i].outcome = "NameCollision"
        /\ Basename(result[i].target) = a_1_jpg

\* C6: no failure met while a file is processed leaves the loop body: the
\* run never ends on an uncaught exception.
PerFileErrorIsolation == pc # "Crashed"

\* C7: a relocation that does not move the file leaves every file where it
\* was, the source file included, calls the move at most once, and hands
\* over to the walk, which goes on with the next file.
MoveFailure ==
    [][/\ pc = "Relocate" /\ ~result'[idx].moved =>
            /\ fs' = fs
            /\ cur.src_path \in DOMAIN fs'
            /\ result'[idx].attempts <= 1
            /\ pc' = "WalkNext"
       /\ pc = "WalkNext" /\ idx < Len(walk) =>
            idx' = idx + 1 /\ pc' = "Classify"
       /\ pc = "WalkNext" => \A i \in Walked : result[i].attempts <= 1]_vars

\* the move of a file failed in the collision branch and the walk went on
\* to the next file
MoveFailureWitness ==
    \E i \in Walked :
        /\ ~result[i].moved /\ result[i].attempts = 1
        /\ result[i].outcome = "NameCollision"
        /\ SrcPath(walk, i) \in DOMAIN fs
        /\ idx > i

ExtensionSet(extensions) == {extensions[i] : i \in 1..Len(extensions)}

\* the kind the lowercased extension of the name gives
KindByExtension(file) ==
    LET ext == Lower(splitext(file).ext)
    IN  IF ext \in ExtensionSet(IMAGE_EXTENSIONS) THEN "Photo"
        ELSE IF ext \in ExtensionSet(VIDEO_EXTENSIONS) THEN "Video"
        ELSE "Ignored"

\* C8: every classified file has the kind its lowercased extension gives
\* (Ignored for every other name, also one without extension), and an
\* Ignored file is not moved.
ClassificationByExtension ==
    \A i \in Walked :
        result[i].kind # "None" =>
            /\ result[i].kind = KindByExtension(walk[i].file)
            /\ result[i].kind = "Ignored" =>
                  ~result[i].moved /\ SrcPath(walk, i) \in DOMAIN fs

\* C9: when the source folder is no directory, the run ends right after
\* the first census: no file is moved, no directory is created, no file is
\* processed.
MissingSourceAborts ==
    source \notin dirs0 /\ pc # "Start" =>
        /\ pc = "Aborted"
        /\ fs = fs0
        /\ dirs = dirs0
        /\ idx = 0

\* a run on a missing source folder has ended
MissingSourceAbortsWitness ==
    /\ source \notin dirs0
    /\ pc = "Aborted"
    /\ DOMAIN fs0 # {}

\* the digest of the whole content, taken in one piece
Digest(content) == sha256_update(1, content)

\* C10: is_duplicate answers true for two readable files of equal size and
\* equal digest, and false without opening either file when the sizes
\* differ.
IsDuplicateContract ==
    pc = "Compared" =>
        /\ /\ cur.fault = "none"
           /\ Len(cur.content1) = Len(cur.content2)
           /\ Digest(cur.content1) = Digest(cur.content2)
           => cur.result
        /\ Len(cur.content1) # Len(cur.content2)
           => ~cur.result /\ cur.reads = << >>

\* two readable files of the longest drawn content were found equal
IsDuplicateContractWitness ==
    /\ pc = "Compared"
    /\ cur.result
    /\ Len(cur.content1) = MaxContentLen
    /\ cur.fault = "none"


\* C11: a comparison that met an I/O error answered false: the file was
\* handled as a name collision and, when moved, lies in its year folder
\* under a suffixed name, never in the duplicates tree.
FailOpen ==
    \A i \in Walked :
        result[i].compared = "failed" =>
            /\ result[i].outcome = "NameCollision"
            /\ result[i].moved =>
                  /\ Dirname(result[i].target) = YearFolderOf(i)
                  /\ \E k \in 1..(Cardinality(DOMAIN fs) + 1) :
                        result[i].target
                            = Candidate(YearFolderOf(i), walk[i].file, k)
                  /\ ~Under(duplicates_root, result[i].target)
                  /\ fs[result[i].target] = Content0(i)

\* a file with the bytes of the file at its destination was moved after a
\* failed comparison
FailOpenWitness ==
    \E i \in Walked :
        /\ result[i].compared = "failed"
        /\ result[i].moved
        /\ Content0(i) = fs[ProposedDest(i)]

\* the walked files the run skipped as Ignored
SkippedIgnored == {i \in Walked : result[i].kind = "Ignored"}

\* the walked photos and videos whose relocation left them in place
LeftInPlace ==
    {i \in Walked : result[i].kind \in {"Photo", "Video"} /\ ~result[i].moved}

\* C12: at the end of a run that finished the walk, the check value is
\* the number of files skipped as Ignored plus the number of files left in
\* place by a failed relocation.
ConsistencyCheck ==
    pc = "End" =>
        census.check = Cardinality(SkippedIgnored) + Cardinality(LeftInPlace)

\* a finished run with a skipped file and a failed move, or with a file
\* moved to the duplicates tree
ConsistencyCheckWitness ==
    /\ pc = "End"
    /\ \/ /\ SkippedIgnored # {}
          /\ \E i \in LeftInPlace : result[i].attempts = 1
       \/ /\ census.duplicates > 0
          /\ \E i \in LeftInPlace : result[i].attempts = 1


\* the year of the embedded timestamp the metadata reader returns for the
\* file, 0 when the reader fails, raises or returns nothing
EmbeddedYear ==
    IF cur.kind = "Photo"
    THEN IF cur.exif.status = "value" /\ cur.exif.value = exif_2020 THEN 2020
         ELSE IF cur.exif.status = "value" /\ cur.exif.value = exif_1999
         THEN 1999 ELSE 0
    ELSE IF cur.parser = "opened" /\ cur.meta.status = "value"
         THEN cur.meta.value ELSE 0

\* the calendar year of the modification times drawn
CalendarYear(mod_time) ==
    CASE mod_time = 1622505600 -> 2021
      [] mod_time = 1609459200 -> 2021
      [] mod_time = 1609459199 -> 2020
      [] mod_time = 951782400 -> 2000
      [] mod_time = 0 -> 1970

\* the resolved year is that of the embedded timestamp, and that of the
\* modification time when there is none
ChainHolds ==
    /\ EmbeddedYear # 0 => ~cur.raised /\ cur.year = EmbeddedYear
    /\ EmbeddedYear = 0 /\ cur.mtime.status = "ok" =>
          ~cur.raised /\ cur.year = CalendarYear(cur.mtime.value)

\* C13: for every photo and video the resolved year is the year of the
\* embedded timestamp when the reader returns one, and the year of the
\* modification time when the reader fails, raises or returns nothing.
YearFallbackChain == pc = "Resolved" => ChainHolds

\* the same, short of a createParser that raises
YearFallbackChainUnlessOpenRaises ==
    pc = "Resolved" /\ cur.parser # "raise" => ChainHolds

\* the positions of a call in the trace
Calls(name) == {i \in 1..Len(cur.trace) : cur.trace[i] = name}

\* C14: in get_video_year a parser that was opened is closed exactly once,
\* on every exit path, and before the modification time is read; without a
\* parser nothing is closed.
ParserRelease ==
    pc = "Resolved" /\ cur.kind = "Video" =>
        /\ cur.parser = "opened" =>
              /\ cur.closes = 1
              /\ Cardinality(Calls("close")) = 1
              /\ \A i \in Calls("close"), j \in Calls("getmtime") : i < j
        /\ cur.parser # "opened" =>
              cur.closes = 0 /\ Calls("close") = {}

\* extractMetadata raised on an opened parser and the fallback raised too
ParserReleaseWitness ==
    /\ pc = "Resolved"
    /\ cur.kind = "Video"
    /\ cur.parser = "opened"
    /\ cur.meta.status = "raise"
    /\ cur.mtime.status = "raise"
    /\ cur.closes = 1


\* C15: whenever a file is moved, the directory it is moved into exists at
\* the move: a year folder already before move_file_safe is called, the
\* folder duplicates_root/<kind>/<year> once move_file_safe has made it.
DirectoryBeforeMove ==
    [][pc = "Relocate" /\ result'[idx].moved =>
          LET target == result'[idx].target
          IN  /\ Dirname(target) \in dirs'
              /\ ~Under(duplicates_root, target) =>
                    Dirname(target) = YearFolderOf(idx)
                    /\ Dirname(target) \in dirs
              /\ Under(duplicates_root, target) =>
                    Dirname(target) = DupFolderOf(idx)]_vars

\* a file was moved into a duplicates folder and one into a year folder,
\* neither of which existed when the run started
DirectoryBeforeMoveWitness ==
    /\ \E i \in Walked :
          /\ result[i].moved
          /\ Under(duplicates_root, result[i].target)
          /\ Dirname(result[i].target) \notin dirs0
    /\ \E i \in Walked :
          /\ result[i].moved
          /\ ~Under(duplicates_root, result[i].target)
          /\ Dirname(result[i].target) \notin dirs0

\* C18: a file is moved into the duplicates tree only when the file at its
\* proposed destination has the same size and the same digest; so every
\* file the run added to the duplicates tree has a file of the same content
\* in the year folder of its kind.
DeduplicationSoundness ==
    [][/\ /\ pc = "Relocate"
          /\ result'[idx].moved
          /\ Under(duplicates_root, result'[idx].target)
          => /\ ProposedDest(idx) \in DOMAIN fs
             /\ Len(fs[ProposedDest(idx)]) = Len(fs[cur.src_path])
             /\ Digest(fs[ProposedDest(idx)]) = Digest(fs[cur.src_path])
       /\ \A i \in Walked :
             result[i].moved /\ Under(duplicates_root, result[i].target)
                => \E p \in DOMAIN fs :
                      /\ Dirname(p) = YearFolderOf(i)
                      /\ fs[p] = Content0(i)]_vars

\* a finished run that moved a file into the duplicates tree
DeduplicationSoundnessWitness ==
    /\ pc = "End"
    /\ \E i \in Walked :
          /\ result[i].moved
          /\ Under(duplicates_root, result[i].target)
          /\ fs[result[i].target] = fs[ProposedDest(i)]


\* C16: every run on an existing source tree reaches Done, the end of the
\* walk.
Termination == source \in dirs0 => <>(pc = "Done")

\* every run ends: at the end of the walk, on the missing source folder, or
\* on an uncaught exception
RunEnds == <>(pc \in {"End", "Aborted", "Crashed"})


(***************************************************************************)
(* Two calls of move_file_safe running interleaved on one file system:     *)
(* each call first looks for its target (lines 89-109), later moves to it  *)
(* (lines 99, 110, 113).                                                   *)
(***************************************************************************)
Workers == {1, 2}

RaceDest(file) ==
    Join(Join(IF Classify(file) = "Photo" THEN photo_destination
              ELSE video_destination, y2020), file)

RaceDuplicates(file) ==
    Join(Join(duplicates_root, KindFolder(Classify(file))), y2020)

InitRace ==
    \E listing \in [Workers -> [file : {a_jpg, a_mp4}, content : SourceContents]],
       pre \in PreExisting :
        LET src(w) == Join(Join(source, Str(w)), listing[w].file)
            allfs == [p \in {src(w) : w \in Workers} |->
                         listing[CHOOSE w \in Workers : src(w) = p].content] @@ pre
            alldirs == UNION {Ancestors(Dirname(p)) : p \in DOMAIN allfs}
                       \cup UNION {Ancestors(Dirname(RaceDest(listing[w].file))) :
                                      w \in Workers}
        IN  /\ cur = [w \in Workers |->
                        [src_path |-> src(w),
                         dest_path |-> RaceDest(listing[w].file),
                         duplicate_dest |-> RaceDuplicates(listing[w].file),
                         phase |-> "check", target |-> << >>,
                         raced |-> FALSE, overwrote |-> FALSE]]
            /\ fs = allfs /\ fs0 = allfs
            /\ dirs = alldirs /\ dirs0 = alldirs
            /\ pc = "Race"
            /\ walk = << >> /\ idx = 0 /\ count = 0
            /\ census = NoCensus /\ result = << >>

\* the call of worker w up to its shutil.move: the branch is taken and the
\* target is found on the file system as it is now
RaceCheck(w) ==
    /\ pc = "Race"
    /\ cur[w].phase = "check"
    /\ \E cmpFault \in CompareFaults :
          LET r == move_file_safe(fs, dirs, cur[w].src_path, cur[w].dest_path,
                                  cur[w].duplicate_dest, 1, cmpFault, "move")
          IN  /\ dirs' = r.dirs
              /\ cur' = [cur EXCEPT ![w].phase = "move",
                                    ![w].target = r.target]
    /\ UNCHANGED <<fs, walk, idx, pc, count, census, result, fs0, dirs0>>

\* the shutil.move of worker w to the target found earlier; the other
\* worker, if it stands between its look and its move, has been raced
RaceMove(w) ==
    /\ pc = "Race"
    /\ cur[w].phase = "move"
    /\ fs' = shutil_move(fs, cur[w].src_path, cur[w].target)
    /\ cur' = [v \in Workers |->
                 IF v = w
                 THEN [cur[v] EXCEPT !.phase = "done",
                                     !.overwrote = cur[w].target \in DOMAIN fs]
                 ELSE [cur[v] EXCEPT !.raced = cur[v].phase = "move"
                                               \/ cur[v].raced]]
    /\ UNCHANGED <<dirs, walk, idx, pc, count, census, result, fs0, dirs0>>

NextRace == \E w \in Workers : RaceCheck(w) \/ RaceMove(w)

SpecRace == InitRace /\ [][NextRace]_vars

\* C17: a move replaces an existing file only in a call that another
\* call's move has raced between its look and its move: calls that run one
\* after the other lose no file.
OverwriteOnlyWhenRaced ==
    pc = "Race" =>
        /\ \A w \in Workers : cur[w].overwrote => cur[w].raced
        /\ Cardinality(DOMAIN fs) < Cardinality(DOMAIN fs0)
              => \E w \in Workers : cur[w].raced

\* both calls saw the same name free and moved to it: one file of the two
\* is gone
OverwriteOnlyWhenRacedWitness ==
    /\ pc = "Race"
    /\ \A w \in Workers : cur[w].phase = "done"
    /\ cur[1].target = cur[2].target
    /\ \E w \in Workers : cur[w].overwrote /\ cur[w].raced
    /\ Cardinality(DOMAIN fs) < Cardinality(DOMAIN fs0)


\* every file relocated so far was moved, after a comparison free of I/O
\* errors
AllMovedCleanly ==
    \A i \in Walked :
        /\ result[i].outcome # "None" => result[i].moved
        /\ result[i].compared # "failed"

\* C19 as stated: when the destination trees were empty at the start and
\* every move succeeded, no destination year folder holds two files of the
\* same content.
DeduplicationCompleteAlways ==
    DOMAIN fs0 \cap {p \in DOMAIN fs0 : InDestination(p)} = {}
    /\ AllMovedCleanly
        => \A p, q \in DOMAIN fs :
              /\ p # q
              /\ Under(photo_destination, p) \/ Under(video_destination, p)
              /\ Dirname(p) = Dirname(q)
              => fs[p] # fs[q]

\* C19: a file moved after a comparison free of I/O errors that has the
\* content of the file at its proposed destination is in the duplicates
\* tree: a file stored in the year folder under a suffixed name differs
\* from the file name.ext of that folder.
DeduplicationComplete ==
    \A i \in Walked :
        /\ result[i].moved
        /\ result[i].compared # "failed"
        /\ result[i].target # ProposedDest(i)
        /\ ProposedDest(i) \in DOMAIN fs
        /\ fs[ProposedDest(i)] = Content0(i)
        => /\ Under(duplicates_root, result[i].target)
           /\ Dirname(result[i].target) = DupFolderOf(i)

\* a finished run in which a later copy of the first file went to the
\* duplicates tree and a file of other content got a suffixed name
DeduplicationCompleteWitness ==
    /\ pc = "End"
    /\ AllMovedCleanly
    /\ \E i, j \in Walked :
          /\ result[i].target = ProposedDest(i)
          /\ Under(duplicates_root, result[j].target)
          /\ Content0(i) = Content0(j)
    /\ \E k \in Walked :
          /\ result[k].outcome = "NameCollision"
          /\ result[k].compared = "different"

=============================================================================
